---- MODULE Spec2Model ----
(***************************************************************************)
(* Explicit Folding: the extension host glue of src/src/extension.ts       *)
(* (MainProvider, rule merging, deprecation checks, delayed setup,         *)
(* provider registration) and the rule-driven folding engine it delegates  *)
(* to (FoldingProvider, described in spec.md sections 3, 4 and 8).         *)
(***************************************************************************)
EXTENDS Integers, Sequences, FiniteSets, TLC

VARIABLES
    cfg,          \* the workspace configuration (folding.*, explicitFolding.*)
    clock,        \* the latest date getRules has read: "early", "june" or "late"
    lastWarning,  \* globalState[DEPRECATED_KEY]: month of the last `folding` warning
    msgs,         \* how many times each notification was shown
    channel,      \* $channel: number of output channels created (0: $channel is null)
    gen,          \* identity of the MainProvider now registered for '*'
    providers,    \* this.providers of the current MainProvider: languages flagged
    timers,       \* pending setTimeout callbacks: [gen, doc]
    disposables,  \* $disposable: the live registrations, in push order
    subscriptions,\* how many times $disposable was pushed on context.subscriptions
    listeners,    \* onDidChangeVisibleTextEditors listeners installed by setupAutoFold
    documents,    \* $documents
    cmds,         \* commands issued by the last foldDocument
    setupStarts,  \* how many times setup was entered, per <<gen, language>>
    changes,      \* configuration-change events delivered so far
    lastCall,     \* what the last provideFoldingRanges call did
    lastSetup,    \* what the last setup did
    ar,           \* one applyRules call: its arguments and what it left in rules
    e,            \* the folding engine's scan state
    seen,         \* the `documents` closure variable of each setupAutoFold listener
    lastEvent,    \* what the last visible-editors change did
    folded,       \* the documents for which a foldDocument call has completed
    fd,           \* one foldDocument call: its autoFold text and what it issued
    act           \* one activation: stored and current version, what it did

hostVars == <<cfg, clock, lastWarning, msgs, channel, gen, providers, timers,
              disposables, subscriptions, listeners, documents, cmds,
              setupStarts, changes, lastCall, lastSetup, seen, lastEvent, folded>>
vars == <<cfg, clock, lastWarning, msgs, channel, gen, providers, timers,
          disposables, subscriptions, listeners, documents, cmds,
          setupStarts, changes, lastCall, lastSetup, ar, e,
          seen, lastEvent, folded, fd, act>>

(***************************************************************************)
(* Bounds of the model.                                                    *)
(***************************************************************************)
MaxChanges == 1
MaxTarget == 2

(***************************************************************************)
(* JavaScript values that a rules setting can hold.  Every value is a      *)
(* record tagged by t: undefined, null, a non-object scalar, an array, a   *)
(* rule object, or the object keyed by language id.                        *)
(***************************************************************************)
Undefined == [t |-> "undef"]
Null == [t |-> "null"]
Str == [t |-> "str"]
Arr(items) == [t |-> "arr", items |-> items]
Map(f) == [t |-> "map", keys |-> f]
EmptyMap == Map([k \in {} |-> Undefined])

\* A rule object: id stands for its patterns, wf says whether it declares any
\* of begin/end, a single pattern, indentation or consecutive.
Rule(id, wf, desc, nested) ==
    [t |-> "obj", id |-> id, wf |-> wf, descendants |-> desc, nested |-> nested]

Truthy(v) == v.t \notin {"undef", "null"}

\* v[k] for a language id or '*': only the language-keyed object has such keys.
Prop(v, k) ==
    IF v.t = "map" /\ k \in DOMAIN v.keys THEN v.keys[k] ELSE Undefined

Elems(s) == {s[i] : i \in DOMAIN s}

SCHEMES == <<"file", "untitled", "vscode-userdata">>

Languages == {"L1", "L2"}
Docs == {"d1", "d2"}
LangOf == [d \in Docs |-> IF d = "d2" THEN "L2" ELSE "L1"]

\* A variant that puts the new rules in front.
applyRulesInFront(data, rules) ==
    IF data.t = "arr" THEN data.items \o rules
    ELSE IF data.t \notin {"undef", "null"} THEN <<data>> \o rules
    ELSE rules

(***************************************************************************)
(* applyRules (extension.ts 75-81).                                        *)
(***************************************************************************)
applyRules(data, rules) ==
    IF data.t = "arr" THEN rules \o data.items
    ELSE IF Truthy(data) THEN Append(rules, data)
    ELSE rules

(***************************************************************************)
(* checkDeprecatedRule (extension.ts 83-99).  st is [deprecateds, threw]:  *)
(* reading .descendants of null or undefined throws a TypeError, which     *)
(* ends the walk.                                                          *)
(***************************************************************************)
RECURSIVE checkDeprecatedRule(_, _), checkDeprecatedLoop(_, _, _)
checkDeprecatedLoop(items, i, st) ==
    IF st.threw \/ i > Len(items) THEN st
    ELSE checkDeprecatedLoop(items, i + 1, checkDeprecatedRule(items[i], st))

checkDeprecatedRule(rule, st) ==
    IF rule.t = "arr" THEN checkDeprecatedLoop(rule.items, 1, st)
    ELSE IF rule.t \in {"null", "undef"} THEN [st EXCEPT !.threw = TRUE]
    ELSE IF rule.t = "obj" /\ rule.descendants THEN
        IF "descendants" \in Elems(st.deprecateds) THEN st
        ELSE [st EXCEPT !.deprecateds = Append(@, "descendants")]
    ELSE IF rule.t = "obj" /\ rule.nested.t = "arr" THEN
        checkDeprecatedLoop(rule.nested.items, 1, st)
    ELSE st

\* A variant that reports every rule carrying the field.
RECURSIVE WarnEveryRule(_)
WarnEveryRule(rules) ==
    IF rules = <<>> THEN 0
    ELSE (IF Head(rules).t = "obj" /\ Head(rules).descendants THEN 1 ELSE 0)
         + WarnEveryRule(Tail(rules))

checkDeprecatedRulesPerRule(rules) ==
    [threw |-> checkDeprecatedRule(Arr(rules), [deprecateds |-> <<>>, threw |-> FALSE]).threw,
     warned |-> WarnEveryRule(rules)]

\* checkDeprecatedRules (extension.ts 101-109): [threw, warned], warned the
\* number of `descendants` warnings shown.
checkDeprecatedRules(rules) ==
    LET st == checkDeprecatedRule(Arr(rules), [deprecateds |-> <<>>, threw |-> FALSE])
    IN  [threw |-> st.threw,
         warned |-> IF ~st.threw /\ "descendants" \in Elems(st.deprecateds)
                    THEN 1 ELSE 0]

(***************************************************************************)
(* getDelay (extension.ts 140-148).  A setting is [has, val]; an unset or  *)
(* zero value reads as 0 through `|| 0`.                                   *)
(***************************************************************************)
getDelay(c) ==
    IF c.startupDelay.has
    THEN [delay |-> c.startupDelay.val, warned |-> 1]
    ELSE [delay |-> IF c.delay.has THEN c.delay.val ELSE 0, warned |-> 0]

(***************************************************************************)
(* getRules (extension.ts 150-171).  The legacy `folding` setting has more *)
(* than the 4 API keys when it holds at least one language.                *)
(***************************************************************************)
getRules(c, clk, lastW) ==
    IF c.folding.t = "map" /\ DOMAIN c.folding.keys # {} THEN
        IF clk = "late"
        THEN [value |-> c.rules, lastWarning |-> lastW, err |-> 1, warn |-> 0]
        ELSE IF lastW = "none" \/ lastW # clk \/ clk = "june"
        THEN [value |-> c.folding, lastWarning |-> clk, err |-> 0, warn |-> 1]
        ELSE [value |-> c.folding, lastWarning |-> lastW, err |-> 0, warn |-> 0]
    ELSE [value |-> c.rules, lastWarning |-> lastW, err |-> 0, warn |-> 0]

\* getConfiguration('explicitFolding', document).get('rules'): the value set
\* for the document's language when there is one, else the global value.
ConfigGetRules(c, language) ==
    IF c.override[language] # Undefined THEN c.override[language] ELSE c.rules

(***************************************************************************)
(* foldDocument (extension.ts 111-138): the commands it issues.            *)
(***************************************************************************)
Cmd(name, n) == [c |-> name, n |-> n]

RECURSIVE FoldLevels(_, _)
FoldLevels(i, level) ==
    IF i >= level THEN <<Cmd("editor.foldLevel", i)>> \o FoldLevels(i - 1, level)
    ELSE <<>>

foldCommands(autoFold) ==
    IF autoFold.kind = "all" THEN <<Cmd("editor.foldAll", 0)>>
    ELSE IF autoFold.kind = "comments" THEN <<Cmd("editor.foldAllBlockComments", 0)>>
    ELSE IF autoFold.kind \in {"none", "unset"} THEN <<>>
    ELSE IF autoFold.kind = "num" THEN <<Cmd("editor.unfoldAll", 0)>> \o FoldLevels(7, autoFold.n)
    ELSE <<Cmd("editor.unfoldAll", 0)>>

\* A variant that pushes without looking.
pushDocumentAlways(docs, d) == Append(docs, d)

pushDocument(docs, d) == IF d \in Elems(docs) THEN docs ELSE Append(docs, d)

\* $documents after n foldDocument calls for d, one after the other.
RECURSIVE pushDocumentTimes(_, _, _)
pushDocumentTimes(docs, d, n) ==
    IF n = 0 THEN docs ELSE pushDocumentTimes(pushDocument(docs, d), d, n - 1)

(***************************************************************************)
(* The configurations the model draws from.                                *)
(***************************************************************************)
Unset == [has |-> FALSE, val |-> 0]
Set(n) == [has |-> TRUE, val |-> n]
NoOverride == [l \in Languages |-> Undefined]

r1 == Rule(1, TRUE, FALSE, Undefined)
r2 == Rule(2, TRUE, FALSE, Undefined)
r3 == Rule(3, TRUE, TRUE, Undefined)
r4 == Rule(4, TRUE, FALSE, Arr(<<Rule(5, TRUE, TRUE, Undefined), r1>>))
r6 == Rule(6, FALSE, FALSE, Undefined)
r7 == Rule(7, TRUE, TRUE, Undefined)
w1 == Rule(11, TRUE, FALSE, Undefined)
w2 == Rule(12, TRUE, TRUE, Undefined)

FullMap == Map(("L1" :> Arr(<<r1, r2>>)) @@ ("L2" :> r3) @@ ("*" :> Arr(<<w1, w2>>)))
WildOnly == Map("*" :> w1)
NullEntry == Map(("L1" :> Arr(<<Null, r1>>)) @@ ("L2" :> Arr(<<>>)) @@ ("*" :> Arr(<<w1>>)))
NestedMap == Map(("L1" :> Arr(<<r4, r6, Str>>)) @@ ("L2" :> Arr(<<r3, r7, r1>>)))
LegacyMap == Map(("L1" :> Arr(<<r2>>)) @@ ("*" :> w2))

Base ==
    [rules |-> FullMap, override |-> NoOverride, folding |-> EmptyMap,
     delay |-> Unset, startupDelay |-> Unset, debug |-> FALSE,
     autoFold |-> [kind |-> "unset", n |-> 0]]

\* The configurations a change event switches to.
ChangedConfigs ==
    { Base,
      [Base EXCEPT !.rules = WildOnly, !.delay = Set(5)],
      [Base EXCEPT !.rules = NullEntry, !.delay = Set(0)] }

\* The configurations the extension is activated with.
Configs ==
    ChangedConfigs \cup {
      [Base EXCEPT !.rules = Undefined, !.delay = Set(-1),
                   !.override = [NoOverride EXCEPT !["L2"] = Arr(<<r2, r1>>)]],
      [Base EXCEPT !.rules = NestedMap, !.startupDelay = Set(5), !.debug = TRUE],
      [Base EXCEPT !.rules = EmptyMap, !.autoFold = [kind |-> "all", n |-> 0],
                   !.override = [NoOverride EXCEPT !["L1"] = r1]],
      [Base EXCEPT !.folding = LegacyMap, !.autoFold = [kind |-> "num", n |-> 5]] }

(***************************************************************************)
(* Registrations.                                                          *)
(***************************************************************************)
Registration(language, scheme, g, provider) ==
    [language |-> language, scheme |-> scheme, gen |-> g, provider |-> provider]

MainProviderOf(g) == [kind |-> "main", rules |-> <<>>, channel |-> "null"]
FoldingProvider(rules, chan) == [kind |-> "folding", rules |-> rules, channel |-> chan]

RegisterAll(language, g, provider) ==
    [i \in 1..Len(SCHEMES) |-> Registration(language, SCHEMES[i], g, provider)]

\* A variant that creates a channel on every call with debug on.
getDebugChannelCreating(debug, chan) ==
    IF debug THEN [channel |-> chan + 1, returned |-> "Folding"]
    ELSE [channel |-> chan, returned |-> "null"]

\* getDebugChannel (extension.ts 173-183): [created, returned].
getDebugChannel(debug, chan) ==
    IF debug THEN [channel |-> IF chan = 0 THEN 1 ELSE chan, returned |-> "Folding"]
    ELSE [channel |-> chan, returned |-> "null"]

\* A variant that rewrites `descendants` to `nested` on the way.
Normalized(v) ==
    IF v.t = "obj" /\ v.descendants
    THEN [v EXCEPT !.descendants = FALSE, !.nested = Arr(<<>>)]
    ELSE v

setupRulesNormalizing(c, language, perLanguages) ==
    LET langRules == IF c.override[language] # [t |-> "undef"]
                     THEN c.override[language] ELSE c.rules
        own == IF langRules.t \in {"undef", "null"}
                  \/ (langRules.t = "map" /\ language \in DOMAIN langRules.keys)
               THEN (IF perLanguages.t = "map" /\ language \in DOMAIN perLanguages.keys
                     THEN perLanguages.keys[language] ELSE [t |-> "undef"])
               ELSE langRules
        wild == IF perLanguages.t = "map" /\ "*" \in DOMAIN perLanguages.keys
                THEN perLanguages.keys["*"] ELSE [t |-> "undef"]
        list == (IF own.t = "arr" THEN own.items
                 ELSE IF own.t \in {"undef", "null"} THEN <<>> ELSE <<own>>)
                \o (IF wild.t = "arr" THEN wild.items
                    ELSE IF wild.t \in {"undef", "null"} THEN <<>> ELSE <<wild>>)
    IN  [i \in DOMAIN list |-> Normalized(list[i])]

(***************************************************************************)
(* MainProvider.setup (extension.ts 41-72): the rule list it builds.       *)
(***************************************************************************)
setupRules(c, language, perLanguages) ==
    LET langRules == ConfigGetRules(c, language)
        first == IF ~Truthy(langRules) \/ Truthy(Prop(langRules, language))
                 THEN applyRules(Prop(perLanguages, language), <<>>)
                 ELSE applyRules(langRules, <<>>)
    IN  applyRules(Prop(perLanguages, "*"), first)

NoCall ==
    [doc |-> "none", first |-> FALSE, delay |-> 0, deferred |-> FALSE,
     threw |-> FALSE, registered |-> FALSE, folded |-> FALSE, started |-> 0]
NoSetup ==
    [gen |-> 0, doc |-> "none", threw |-> FALSE, rules |-> <<>>, warned |-> 0,
     cfg |-> Base, perLanguages |-> Undefined, registered |-> FALSE]

\* new Date() in getRules: a date not before the last one read.  Only a
\* configuration with a legacy `folding` setting reads the date.
ReadsDate(c) == c.folding.t = "map" /\ DOMAIN c.folding.keys # {}
DatesFrom(clk) ==
    IF clk = "early" THEN {"early", "june", "late"}
    ELSE IF clk = "june" THEN {"june", "late"}
    ELSE {"late"}
Dates == IF ReadsDate(cfg) THEN DatesFrom(clock) ELSE {clock}

\* The whole of setup, run by MainProvider g for doc at date now, with m the
\* messages shown so far in this handler.
Setup(g, doc, m, now) ==
    LET language == LangOf[doc]
        gr == getRules(cfg, now, lastWarning)
        rules == setupRules(cfg, language, gr.value)
        chk == checkDeprecatedRules(rules)
        m1 == [m EXCEPT !.foldingErr = @ + gr.err, !.foldingWarn = @ + gr.warn,
                        !.descendants = @ + chk.warned]
        dc == getDebugChannel(cfg.debug, channel)
        provider == FoldingProvider(rules, dc.returned)
    IN  /\ clock' = now
        /\ lastWarning' = gr.lastWarning
        /\ msgs' = m1
        /\ setupStarts' = [setupStarts EXCEPT ![<<g, language>>] = @ + 1]
        /\ lastSetup' = [gen |-> g, doc |-> doc, threw |-> chk.threw,
                         rules |-> IF chk.threw THEN <<>> ELSE rules,
                         warned |-> chk.warned, cfg |-> cfg,
                         perLanguages |-> gr.value, registered |-> ~chk.threw]
        /\ IF chk.threw
           THEN UNCHANGED <<channel, disposables, documents, cmds, folded>>
           ELSE /\ channel' = dc.channel
                /\ folded' = folded \cup {doc}
                /\ disposables' = disposables \o RegisterAll(language, g, provider)
                /\ cmds' = foldCommands(cfg.autoFold)
                /\ documents' = pushDocument(documents, doc)

IsRegistered(regs, language) ==
    \A i \in 1..Len(SCHEMES) :
        \E j \in 1..Len(regs) :
            /\ regs[j].language = language
            /\ regs[j].scheme = SCHEMES[i]
            /\ regs[j].provider.kind = "folding"

(***************************************************************************)
(* MainProvider.provideFoldingRanges (extension.ts 24-39), called by the   *)
(* editor on the MainProvider registered for '*'.                          *)
(***************************************************************************)
ProvideFoldingRanges(doc) ==
    LET language == LangOf[doc]
        d == getDelay(cfg)
        m == [msgs EXCEPT !.startupDelay = @ + d.warned]
    IN  IF language \in providers
        THEN /\ lastCall' = [NoCall EXCEPT !.doc = doc]
             /\ UNCHANGED <<cfg, clock, lastWarning, msgs, channel, gen, providers,
                            timers, disposables, subscriptions, listeners,
                            documents, cmds, setupStarts, changes, lastSetup, ar, e,
                            seen, lastEvent, folded, fd, act>>
        ELSE /\ providers' = providers \cup {language}
             /\ IF d.delay > 0
                THEN /\ timers' = timers \cup {[gen |-> gen, doc |-> doc]}
                     /\ msgs' = m
                     /\ lastCall' = [doc |-> doc, first |-> TRUE, delay |-> d.delay,
                                     deferred |-> TRUE, threw |-> FALSE,
                                     registered |-> IsRegistered(disposables, language),
                                     folded |-> doc \in Elems(documents),
                                     started |-> setupStarts[<<gen, language>>]]
                     /\ UNCHANGED <<clock, lastWarning, channel, disposables,
                                    documents, cmds, setupStarts, lastSetup, folded>>
                ELSE /\ \E now \in Dates : Setup(gen, doc, m, now)
                     /\ lastCall' = [doc |-> doc, first |-> TRUE, delay |-> d.delay,
                                     deferred |-> FALSE, threw |-> lastSetup'.threw,
                                     registered |-> IsRegistered(disposables', language),
                                     folded |-> doc \in Elems(documents'),
                                     started |-> setupStarts'[<<gen, language>>]]
                     /\ UNCHANGED timers
             /\ UNCHANGED <<cfg, gen, subscriptions, listeners, changes, ar, e,
                            seen, lastEvent, fd, act>>

\* A setTimeout callback of provideFoldingRanges runs: this.setup(document).
TimerFire(t) ==
    /\ t \in timers
    /\ timers' = timers \ {t}
    /\ \E now \in Dates : Setup(t.gen, t.doc, msgs, now)
    /\ UNCHANGED <<cfg, gen, providers, subscriptions, listeners, changes,
                   lastCall, ar, e, seen, lastEvent, fd, act>>

\* A variant that leaves the earlier registrations live.
setupFoldingRangeProviderKeeping(regs, g) ==
    regs \o RegisterAll("*", g, MainProviderOf(g))

\* setupFoldingRangeProvider (extension.ts 185-197): $disposable.dispose()
\* disposes every registration pushed so far, then the new MainProvider g is
\* registered for '*' under every scheme.  The result is the live
\* registrations held by $disposable.
setupFoldingRangeProvider(regs, g) ==
    RegisterAll("*", g, MainProviderOf(g))

(***************************************************************************)
(* setupFoldingRangeProvider and setupAutoFold (extension.ts 185-217), as  *)
(* run by the onDidChangeConfiguration listener of activate (277-282).     *)
(***************************************************************************)
ConfigChange(c) ==
    /\ changes < MaxChanges
    /\ c # cfg
    /\ changes' = changes + 1
    /\ cfg' = c
    /\ gen' = gen + 1
    /\ providers' = {}
    /\ disposables' = setupFoldingRangeProvider(disposables, gen + 1)
    /\ subscriptions' = subscriptions + 1
    /\ listeners' = listeners + 1
    /\ seen' = Append(seen, {})
    /\ UNCHANGED <<clock, lastWarning, msgs, channel, timers, documents, cmds,
                   setupStarts, lastCall, lastSetup, ar, e, lastEvent, folded,
                   fd, act>>

\* A configuration change that affects neither `folding` nor `explicitFolding`.
OtherConfigChange ==
    /\ changes < MaxChanges
    /\ changes' = changes + 1
    /\ UNCHANGED <<cfg, clock, lastWarning, msgs, channel, gen, providers, timers,
                   disposables, subscriptions, listeners, documents, cmds,
                   setupStarts, lastCall, lastSetup, ar, e, seen, lastEvent,
                   folded, fd, act>>

(***************************************************************************)
(* The onDidChangeVisibleTextEditors listeners of setupAutoFold            *)
(* (extension.ts 199-217).  Every listener still subscribed runs on a      *)
(* change of the visible editors, each with its own `documents`.           *)
(***************************************************************************)
\* The listeners that call foldDocument for the active document.
FoldingListeners(closures, active) ==
    {i \in DOMAIN closures : active \notin closures[i]}

\* The visible editors change, with an active editor showing `active` and
\* `open` the documents of workspace.textDocuments.
VisibleEditorsChange(active, open) ==
    LET hits == FoldingListeners(seen, active)
    IN  /\ active \in open
        /\ seen' = [i \in DOMAIN seen |-> open]
        /\ lastEvent' = [active |-> active, folds |-> Cardinality(hits)]
        /\ IF hits = {}
           THEN UNCHANGED <<cmds, documents, folded>>
           ELSE /\ cmds' = foldCommands(cfg.autoFold)
                /\ documents' = pushDocumentTimes(documents, active, Cardinality(hits))
                /\ folded' = folded \cup {active}
        /\ UNCHANGED <<cfg, clock, lastWarning, msgs, channel, gen, providers,
                       timers, disposables, subscriptions, listeners, setupStarts,
                       changes, lastCall, lastSetup, ar, e, fd, act>>

\* The visible editors change with no editor left or no active editor: the
\* listeners return at once.
NoEditorChange ==
    /\ lastEvent' = [active |-> "none", folds |-> 0]
    /\ UNCHANGED <<cfg, clock, lastWarning, msgs, channel, gen, providers, timers,
                   disposables, subscriptions, listeners, documents, cmds,
                   setupStarts, changes, lastCall, lastSetup, ar, e, seen,
                   folded, fd, act>>

NoEvent == [active |-> "none", folds |-> 0]
NoFold == [pc |-> "idle"]
NoActivate == [pc |-> "idle"]
NoMsgs == [descendants |-> 0, startupDelay |-> 0, foldingErr |-> 0, foldingWarn |-> 0]
Idle == [pc |-> "idle"]

\* The state after activate (extension.ts 246-283) has run with
\* configuration c.
HostInit(c) ==
    /\ cfg = c
    /\ clock = "early"
    /\ lastWarning = "none"
    /\ msgs = NoMsgs
    /\ channel = 0
    /\ gen = 1
    /\ providers = {}
    /\ timers = {}
    /\ disposables = setupFoldingRangeProvider(<<>>, 1)
    /\ subscriptions = 1
    /\ listeners = 1
    /\ documents = <<>>
    /\ cmds = <<>>
    /\ setupStarts = [k \in (1..(MaxChanges + 1)) \X Languages |-> 0]
    /\ changes = 0
    /\ lastCall = NoCall
    /\ lastSetup = NoSetup
    /\ seen = <<{}>>
    /\ lastEvent = NoEvent
    /\ folded = {}

NoApply == [pc |-> "idle", data |-> Undefined, rules |-> <<>>, out |-> <<>>]

Init ==
    /\ \E c \in Configs : HostInit(c)
    /\ ar = NoApply
    /\ e = Idle
    /\ fd = NoFold
    /\ act = NoActivate

Next ==
    \/ \E doc \in Docs : ProvideFoldingRanges(doc)
    \/ \E t \in timers : TimerFire(t)
    \/ \E c \in ChangedConfigs : ConfigChange(c)
    \/ OtherConfigChange

Spec == Init /\ [][Next]_vars

(***************************************************************************)
(* Auto-folding: the editor's requests, configuration changes and changes  *)
(* of the visible editors, under the configurations that run setup inside  *)
(* the request (no delay) and read no legacy setting.                      *)
(***************************************************************************)
AutoFoldConfigs ==
    {c \in Configs : ~c.delay.has /\ ~c.startupDelay.has /\ ~ReadsDate(c)}

AutoFoldInit ==
    /\ \E c \in AutoFoldConfigs : HostInit(c)
    /\ ar = NoApply
    /\ e = Idle
    /\ fd = NoFold
    /\ act = NoActivate

AutoFoldNext ==
    \/ \E doc \in Docs : ProvideFoldingRanges(doc)
    \/ \E c \in AutoFoldConfigs : ConfigChange(c)
    \/ \E active \in Docs, open \in SUBSET Docs : VisibleEditorsChange(active, open)
    \/ NoEditorChange

SpecAutoFold == AutoFoldInit /\ [][AutoFoldNext]_vars

(***************************************************************************)
(* applyRules on its own: any data value, any rule array to append to.     *)
(***************************************************************************)
ApplyData ==
    {Undefined, Null, Str, r1, r3, WildOnly,
     Arr(<<>>), Arr(<<r1>>), Arr(<<r2, r1>>), Arr(<<r3, Null, r3>>)}

RECURSIVE SeqsUpTo(_, _)
SeqsUpTo(S, n) ==
    IF n = 0 THEN {<<>>}
    ELSE LET shorter == SeqsUpTo(S, n - 1)
         IN  shorter \cup {Append(q, x) : q \in shorter, x \in S}

ApplyInit ==
    /\ HostInit(Base)
    /\ e = Idle
    /\ fd = NoFold
    /\ act = NoActivate
    /\ \E data \in ApplyData, rules \in SeqsUpTo({r1, r2, w1}, MaxTarget) :
           ar = [pc |-> "call", data |-> data, rules |-> rules, out |-> <<>>]

ApplyCall ==
    /\ ar.pc = "call"
    /\ ar' = [ar EXCEPT !.pc = "done", !.out = applyRules(ar.data, ar.rules)]
    /\ UNCHANGED <<hostVars, e, fd, act>>

ApplyNext == ApplyCall

SpecApplyRules == ApplyInit /\ [][ApplyNext]_vars

(***************************************************************************)
(* The folding engine (spec.md 3, 4.2, 4.3): FoldingProvider scanning a    *)
(* document line by line with compiled rules.  A line is its characters, a *)
(* pattern is one character, anchored to the start of the line or not.     *)
(***************************************************************************)
MaxLines == 3

Pat(anchored, ch) == [anchored |-> anchored, ch |-> ch]
NoPat == Pat(FALSE, "")

\* A variant that ignores the anchor.
MatchAnywhere(p, text, col) ==
    /\ col \in DOMAIN text
    /\ text[col] = p.ch

MatchAt(p, text, col) ==
    /\ col \in DOMAIN text
    /\ text[col] = p.ch
    /\ p.anchored => col = 1

Matches(p, text) == \E col \in DOMAIN text : MatchAt(p, text, col)

BeginEnd(begin, end, foldLastLine, comment) ==
    [kind |-> "begin_end", begin |-> begin, end |-> end,
     foldLastLine |-> foldLastLine, comment |-> comment]
Consecutive(begin, comment) ==
    [kind |-> "consecutive", begin |-> begin, end |-> NoPat,
     foldLastLine |-> TRUE, comment |-> comment]
OffSide ==
    [kind |-> "off_side", begin |-> NoPat, end |-> NoPat,
     foldLastLine |-> TRUE, comment |-> FALSE]

Event(rule, open, openCol, close, closeCol) ==
    [rule |-> rule, open |-> open, openCol |-> openCol,
     close |-> close, closeCol |-> closeCol]

\* The first begin/end rule, in rule order from k, whose begin matches at col.
RECURSIVE FirstBegin(_, _, _, _)
FirstBegin(rules, text, col, k) ==
    IF k > Len(rules) THEN 0
    ELSE IF rules[k].kind = "begin_end" /\ MatchAt(rules[k].begin, text, col) THEN k
    ELSE FirstBegin(rules, text, col, k + 1)

StackMax(S) == CHOOSE i \in S : \A j \in S : j <= i
StackMin(S) == CHOOSE i \in S : \A j \in S : i <= j

Outermost(stack, k) ==
    LET S == {i \in DOMAIN stack : stack[i].rule = k}
    IN  IF S = {} THEN 0 ELSE StackMin(S)

\* The most recently opened entry of rule k still on the stack (0: none).
Innermost(stack, k) ==
    LET S == {i \in DOMAIN stack : stack[i].rule = k}
    IN  IF S = {} THEN 0 ELSE StackMax(S)

\* The first begin/end rule, from k, whose end matches at col and has an
\* open entry to close.
RECURSIVE FirstEnd(_, _, _, _, _)
FirstEnd(rules, text, col, stack, k) ==
    IF k > Len(rules) THEN 0
    ELSE IF /\ rules[k].kind = "begin_end"
            /\ MatchAt(rules[k].end, text, col)
            /\ Innermost(stack, k) # 0 THEN k
    ELSE FirstEnd(rules, text, col, stack, k + 1)

RemoveAt(q, i) == SubSeq(q, 1, i - 1) \o SubSeq(q, i + 1, Len(q))

\* Steps 2 and 3 of the scan of line n, column by column: a begin match
\* pushes an Open Entry, an end match pops the innermost entry of its rule
\* and emits a close event.
RECURSIVE ScanCols(_, _, _, _, _)
ScanCols(rules, text, n, col, st) ==
    IF col > Len(text) THEN st
    ELSE LET b == FirstBegin(rules, text, col, 1)
             c == FirstEnd(rules, text, col, st.stack, 1)
             i == Innermost(st.stack, c)
         IN  IF b # 0 THEN
                 ScanCols(rules, text, n, col + 1,
                     [st EXCEPT !.stack =
                         Append(@, [rule |-> b, line |-> n, col |-> col])])
             ELSE IF c # 0 THEN
                 ScanCols(rules, text, n, col + 1,
                     [stack |-> RemoveAt(st.stack, i),
                      events |-> Append(st.events,
                          Event(c, st.stack[i].line, st.stack[i].col, n, col))])
             ELSE ScanCols(rules, text, n, col + 1, st)

NoRun == [start |-> 0, len |-> 0]

RunAtLeastOne(run) == run.len >= 1

\* A run folds when it holds at least 2 lines.
RunFolds(run) == run.len >= 2

\* The close of the run of rule k, emitted only for a run that folds.
CloseRun(k, run, events) ==
    IF RunFolds(run)
    THEN Append(events, Event(k, run.start, 0, run.start + run.len - 1, 0))
    ELSE events

\* Step 5 for line n, rule by rule from k: st is [runs, events].
RECURSIVE ScanRuns(_, _, _, _, _)
ScanRuns(rules, text, n, k, st) ==
    IF k > Len(rules) THEN st
    ELSE IF rules[k].kind # "consecutive" THEN ScanRuns(rules, text, n, k + 1, st)
    ELSE IF Matches(rules[k].begin, text) THEN
        ScanRuns(rules, text, n, k + 1,
            [st EXCEPT !.runs[k] =
                IF @.len = 0 THEN [start |-> n, len |-> 1]
                ELSE [@ EXCEPT !.len = @ + 1]])
    ELSE ScanRuns(rules, text, n, k + 1,
            [runs |-> [st.runs EXCEPT ![k] = NoRun],
             events |-> CloseRun(k, st.runs[k], st.events)])

\* End of document closes every run still going.
RECURSIVE FlushRuns(_, _, _)
FlushRuns(rules, k, st) ==
    IF k > Len(rules) THEN st
    ELSE IF rules[k].kind # "consecutive" THEN FlushRuns(rules, k + 1, st)
    ELSE FlushRuns(rules, k + 1,
            [runs |-> [st.runs EXCEPT ![k] = NoRun],
             events |-> CloseRun(k, st.runs[k], st.events)])

\* The width of the leading whitespace of a line.
RECURSIVE Indent(_)
Indent(text) ==
    IF text # <<>> /\ Head(text) = " " THEN 1 + Indent(Tail(text)) ELSE 0

OffSideRule(rules) ==
    LET S == {k \in DOMAIN rules : rules[k].kind = "off_side"}
    IN  IF S = {} THEN 0 ELSE StackMin(S)

\* Step 4 for line n of width w: close, innermost first, every implicit open
\* of width >= w at the line above, then open one for this line.
RECURSIVE CloseIndents(_, _, _, _)
CloseIndents(k, n, w, st) ==
    IF st.indents # <<>> /\ st.indents[Len(st.indents)].width >= w
    THEN CloseIndents(k, n, w,
            [indents |-> SubSeq(st.indents, 1, Len(st.indents) - 1),
             events |-> Append(st.events,
                 Event(k, st.indents[Len(st.indents)].line, 0, n - 1, 0))])
    ELSE st

ScanIndent(rules, text, n, st) ==
    LET k == OffSideRule(rules)
        closed == CloseIndents(k, n, Indent(text), st)
    IN  IF k = 0 THEN st
        ELSE [closed EXCEPT !.indents =
                 Append(@, [width |-> Indent(text), line |-> n])]

(***************************************************************************)
(* The Range Assembler (spec.md 4.3).                                      *)
(***************************************************************************)
Range(start, end, kind) == [start |-> start, end |-> end, kind |-> kind]

ClipEnd(end, lastLine) == IF end > lastLine THEN lastLine ELSE end

ToRange(rules, ev, lastLine) ==
    LET r == rules[ev.rule]
        end == IF r.kind = "begin_end" /\ ~r.foldLastLine
               THEN ev.close - 1 ELSE ev.close
    IN  Range(ev.open, ClipEnd(end, lastLine),
              IF r.comment THEN "comment" ELSE "region")

KeptAlways(rules, ev, lastLine) == TRUE

\* Zero-height results are discarded; an open and close on one line is one,
\* whatever foldLastLine says.
Kept(rules, ev, lastLine) ==
    /\ ev.open # ev.close
    /\ ToRange(rules, ev, lastLine).start # ToRange(rules, ev, lastLine).end

SamePair(a, b) == a.start = b.start /\ a.end = b.end

\* Outer ranges first: start ascending, end descending.
Before(a, b) == a.start < b.start \/ (a.start = b.start /\ a.end > b.end)

RECURSIVE InsertSorted(_, _)
InsertSorted(q, x) ==
    IF q = <<>> THEN <<x>>
    ELSE IF Before(x, Head(q)) THEN <<x>> \o q
    ELSE <<Head(q)>> \o InsertSorted(Tail(q), x)

\* Ranges of the events in order, the first seen of identical pairs kept.
RECURSIVE Collect(_, _, _, _, _)
Collect(rules, events, lastLine, k, acc) ==
    IF k > Len(events) THEN acc
    ELSE LET x == ToRange(rules, events[k], lastLine)
         IN  IF Kept(rules, events[k], lastLine)
                /\ \A j \in DOMAIN acc : ~SamePair(acc[j], x)
             THEN Collect(rules, events, lastLine, k + 1, Append(acc, x))
             ELSE Collect(rules, events, lastLine, k + 1, acc)

RECURSIVE SortRanges(_)
SortRanges(q) ==
    IF q = <<>> THEN <<>> ELSE InsertSorted(SortRanges(Tail(q)), Head(q))

Assemble(rules, events, lastLine) ==
    SortRanges(Collect(rules, events, lastLine, 1, <<>>))

(***************************************************************************)
(* One scan: the documents and rule sets it is run on, and its steps.      *)
(***************************************************************************)
Lines ==
    { <<"{">>, <<"}">>, <<"a", " ", "{">>, <<"{", " ", "a">>, <<"b">>,
      <<"/", "/", " ", "a">>, <<"{", " ", "}">>, <<" ", "b">> }

Brace == BeginEnd(Pat(FALSE, "{"), Pat(FALSE, "}"), TRUE, FALSE)
BraceAnchored == BeginEnd(Pat(TRUE, "{"), Pat(TRUE, "}"), TRUE, FALSE)
BraceOpenOnly == BeginEnd(Pat(FALSE, "{"), Pat(FALSE, "}"), FALSE, FALSE)
LetterBlock == BeginEnd(Pat(FALSE, "a"), Pat(FALSE, "b"), TRUE, TRUE)
LineComment == Consecutive(Pat(TRUE, "/"), TRUE)

RuleSets ==
    { <<Brace>>, <<BraceAnchored>>, <<BraceOpenOnly>>, <<LineComment>>,
      <<OffSide>>, <<LetterBlock, Brace, LineComment>>,
      <<LineComment, OffSide, BraceOpenOnly>> }

EngineInit ==
    /\ HostInit(Base)
    /\ ar = NoApply
    /\ fd = NoFold
    /\ act = NoActivate
    /\ \E doc \in SeqsUpTo(Lines, MaxLines), rules \in RuleSets :
           e = [pc |-> "scan", doc |-> doc, rules |-> rules, line |-> 0,
                stack |-> <<>>, runs |-> [k \in DOMAIN rules |-> NoRun],
                indents |-> <<>>, events |-> <<>>, discarded |-> <<>>,
                ranges |-> <<>>]

\* The scan of the next line.
ScanLine ==
    /\ e.pc = "scan"
    /\ e.line < Len(e.doc)
    /\ LET text == e.doc[e.line + 1]
           s1 == ScanCols(e.rules, text, e.line, 1,
                          [stack |-> e.stack, events |-> e.events])
           s2 == ScanIndent(e.rules, text, e.line,
                            [indents |-> e.indents, events |-> s1.events])
           s3 == ScanRuns(e.rules, text, e.line, 1,
                          [runs |-> e.runs, events |-> s2.events])
       IN  e' = [e EXCEPT !.line = @ + 1, !.stack = s1.stack,
                          !.indents = s2.indents, !.runs = s3.runs,
                          !.events = s3.events]
    /\ UNCHANGED <<hostVars, ar, fd, act>>

\* End of document: runs close, the remaining Open Entries are discarded
\* without a close event, and the events are assembled into ranges.
EndOfDocument ==
    /\ e.pc = "scan"
    /\ e.line = Len(e.doc)
    /\ LET s == FlushRuns(e.rules, 1, [runs |-> e.runs, events |-> e.events])
       IN  e' = [e EXCEPT !.pc = "done", !.runs = s.runs, !.events = s.events,
                          !.discarded = e.stack,
                          !.stack = <<>>,
                          !.indents = <<>>,
                          !.ranges = Assemble(e.rules, s.events, Len(e.doc) - 1)]
    /\ UNCHANGED <<hostVars, ar, fd, act>>

EngineNext == ScanLine \/ EndOfDocument

SpecEngine == EngineInit /\ [][EngineNext]_vars

(***************************************************************************)
(* foldDocument on its own (extension.ts 111-138): the autoFold setting is *)
(* a string, read here as its characters, or is not set.                   *)
(***************************************************************************)
MaxLevel == 8

DigitChars == <<"0", "1", "2", "3", "4", "5", "6", "7", "8", "9">>
IsDigit(c) == \E i \in DOMAIN DigitChars : DigitChars[i] = c
DigitValue(c) == (CHOOSE i \in DOMAIN DigitChars : DigitChars[i] = c) - 1

\* String(n) for an integer n.
RECURSIVE Digits(_)
Digits(n) ==
    IF n < 0 THEN <<"-">> \o Digits(0 - n)
    ELSE IF n < 10 THEN <<DigitChars[n + 1]>>
    ELSE Append(Digits(n \div 10), DigitChars[(n % 10) + 1])

\* parseInt (line 123): leading white space is skipped, then an optional
\* sign, then the longest run of digits; NaN when there is no digit there.
RECURSIVE SkipSpace(_), ReadDigits(_, _)
SkipSpace(text) ==
    IF text # <<>> /\ Head(text) = " " THEN SkipSpace(Tail(text)) ELSE text

ReadDigits(text, acc) ==
    IF text # <<>> /\ IsDigit(Head(text))
    THEN ReadDigits(Tail(text), acc * 10 + DigitValue(Head(text)))
    ELSE acc

parseInt(text) ==
    LET t == SkipSpace(text)
        neg == t # <<>> /\ Head(t) = "-"
        u == IF t # <<>> /\ Head(t) \in {"-", "+"} THEN Tail(t) ELSE t
    IN  IF u = <<>> \/ ~IsDigit(Head(u)) THEN [nan |-> TRUE, n |-> 0]
        ELSE [nan |-> FALSE,
              n |-> IF neg THEN 0 - ReadDigits(u, 0) ELSE ReadDigits(u, 0)]

\* A string value, as its characters.
Text(chars) == [t |-> "text", chars |-> chars]

TextAll == Text(<<"a", "l", "l">>)
TextComments == Text(<<"c", "o", "m", "m", "e", "n", "t", "s">>)
TextNone == Text(<<"n", "o", "n", "e">>)

\* config.get('autoFold') || 'none' and the branch foldDocument takes on it
\* (lines 113-123).
AutoFoldValue(text) ==
    IF text = Undefined THEN [kind |-> "unset", n |-> 0]
    ELSE IF text = Text(<<>>) \/ text = TextNone THEN [kind |-> "none", n |-> 0]
    ELSE IF text = TextAll THEN [kind |-> "all", n |-> 0]
    ELSE IF text = TextComments THEN [kind |-> "comments", n |-> 0]
    ELSE LET level == parseInt(text.chars)
         IN  IF level.nan THEN [kind |-> "nan", n |-> 0]
             ELSE [kind |-> "num", n |-> level.n]

AutoFoldTexts ==
    {Undefined, Text(<<>>), TextAll, TextComments, TextNone,
     Text(<<"a", "b", "c">>), Text(<<"3", "x">>), Text(<<" ", "4">>),
     Text(<<"+", "2">>), Text(<<"A", "l", "l">>)}
    \cup {Text(Digits(n)) : n \in (0 - 2)..MaxLevel}

FoldInit ==
    /\ HostInit(Base)
    /\ ar = NoApply
    /\ e = Idle
    /\ act = NoActivate
    /\ \E text \in AutoFoldTexts, doc \in Docs, docs \in SeqsUpTo(Docs, 1) :
           fd = [pc |-> "call", autoFold |-> text, doc |-> doc, docs |-> docs,
                 cmds |-> <<>>, out |-> docs]

FoldCall ==
    /\ fd.pc = "call"
    /\ fd' = [fd EXCEPT !.pc = "done",
                        !.cmds = foldCommands(AutoFoldValue(fd.autoFold)),
                        !.out = pushDocument(fd.docs, fd.doc)]
    /\ UNCHANGED <<hostVars, ar, e, act>>

FoldNext == FoldCall

SpecFoldDocument == FoldInit /\ [][FoldNext]_vars

(***************************************************************************)
(* activate on its own (extension.ts 246-272): the stored and the current  *)
(* version are strings 'major.minor.patch', the stored one absent on       *)
(* install.                                                                *)
(***************************************************************************)
MaxVersion == 10

VersionNumbers == (MaxVersion - 2)..MaxVersion
Versions == [major : VersionNumbers, minor : VersionNumbers, patch : {0, 1}]

\* pkg.version, and the value stored under VERSION_KEY.
VersionString(v) ==
    Digits(v.major) \o <<".">> \o Digits(v.minor) \o <<".">> \o Digits(v.patch)

\* String.prototype.split('.'): the parts between the dots.
RECURSIVE Split(_, _)
Split(chars, part) ==
    IF chars = <<>> THEN <<part>>
    ELSE IF Head(chars) = "." THEN <<part>> \o Split(Tail(chars), <<>>)
    ELSE Split(Tail(chars), Append(part, Head(chars)))

\* a > b on strings of digits: the first differing character decides, and
\* a string is greater than each of its proper prefixes.
RECURSIVE StringGreater(_, _)
StringGreater(a, b) ==
    IF a = <<>> THEN FALSE
    ELSE IF b = <<>> THEN TRUE
    ELSE IF Head(a) # Head(b) THEN DigitValue(Head(a)) > DigitValue(Head(b))
    ELSE StringGreater(Tail(a), Tail(b))

Notifications == {"major", "minor", "none", "all"}

\* Whether activate calls showWhatsNewMessage (lines 254-272).
ShowsWhatsNew(previous, current, notification) ==
    IF previous = Undefined THEN FALSE
    ELSE IF current = previous THEN FALSE
    ELSE LET cur == Split(current.chars, <<>>)
             prev == Split(previous.chars, <<>>)
         IN  IF notification = "major" THEN StringGreater(cur[1], prev[1])
             ELSE IF notification = "minor"
             THEN \/ StringGreater(cur[1], prev[1])
                  \/ (cur[1] = prev[1] /\ StringGreater(cur[2], prev[2]))
             ELSE notification # "none"

\* globalState[VERSION_KEY] after activate (lines 254-255).
StoredVersion(previous, current) ==
    IF previous = Undefined \/ current # previous THEN current ELSE previous

ActivateInit ==
    /\ HostInit(Base)
    /\ ar = NoApply
    /\ e = Idle
    /\ fd = NoFold
    /\ \E previous \in {Undefined} \cup {Text(VersionString(v)) : v \in Versions},
          current \in {Text(VersionString(v)) : v \in Versions},
          notification \in Notifications :
           act = [pc |-> "call", previous |-> previous, current |-> current,
                  notification |-> notification, stored |-> previous,
                  shown |-> FALSE]

Activate ==
    /\ act.pc = "call"
    /\ act' = [act EXCEPT
                  !.pc = "done",
                  !.stored = StoredVersion(act.previous, act.current),
                  !.shown = ShowsWhatsNew(act.previous, act.current, act.notification)]
    /\ UNCHANGED <<hostVars, ar, e, fd>>

ActivateNext == Activate

SpecActivate == ActivateInit /\ [][ActivateNext]_vars

(***************************************************************************)
(* Properties of the rule list that setup builds.                          *)
(***************************************************************************)
\* A configured value read as a list of rules: an array is its elements, a
\* single object is one rule, nothing configured is no rule.
AsList(v) ==
    IF v.t = "arr" THEN v.items
    ELSE IF v.t \in {"undef", "null"} THEN <<>>
    ELSE <<v>>

\* The rules configured for a language: the value set for that language,
\* else the language's entry of the per-language object.
LanguageSource(c, per, language) ==
    IF c.override[language] # Undefined THEN c.override[language]
    ELSE Prop(per, language)

ConfiguredList(c, per, language) ==
    AsList(LanguageSource(c, per, language)) \o AsList(Prop(per, "*"))

SetupRan == lastSetup.gen # 0
SetupLanguage == LangOf[lastSetup.doc]

\* C1: the rule list handed to the FoldingProvider is the language's rules in
\* configured order followed by the wildcard rules in configured order.
C1_LanguageRulesThenWildcard ==
    lastSetup.registered =>
        lastSetup.rules =
            ConfiguredList(lastSetup.cfg, lastSetup.perLanguages, SetupLanguage)

\* C2: applyRules leaves the elements already in rules in place and appends
\* all elements of an array in order, exactly the one object otherwise, and
\* nothing for absent data or an empty array.
C2_ApplyRulesAppendsInOrder ==
    ar.pc = "done" =>
        /\ Len(ar.out) >= Len(ar.rules)
        /\ \A i \in 1..Len(ar.rules) : ar.out[i] = ar.rules[i]
        /\ ar.data.t = "arr" =>
              /\ Len(ar.out) = Len(ar.rules) + Len(ar.data.items)
              /\ \A i \in 1..Len(ar.data.items) :
                    ar.out[Len(ar.rules) + i] = ar.data.items[i]
        /\ ar.data.t \in {"obj", "map", "str"} =>
              /\ Len(ar.out) = Len(ar.rules) + 1
              /\ ar.out[Len(ar.out)] = ar.data
        /\ ar.data.t \in {"undef", "null"} => ar.out = ar.rules

C2_Witness ==
    /\ ar.pc = "done"
    /\ ar.data = Arr(<<r2, r1>>)
    /\ ar.rules = <<w1, r2>>
    /\ ar.out = <<w1, r2, r2, r1>>

\* A rule no engine can use: null, a non-object, or an object declaring no
\* begin/end, single pattern, indentation or consecutive marker.
Malformed(v) == v.t \in {"null", "undef", "str"} \/ (v.t = "obj" /\ ~v.wf)

\* C3: a malformed rule in the configured set is not fatal: setup completes
\* and registers the language's FoldingProvider for all schemes, with every
\* well-formed configured rule still in its list.
C3_MalformedRuleNotFatal ==
    LET conf == ConfiguredList(lastSetup.cfg, lastSetup.perLanguages, SetupLanguage)
    IN  (SetupRan /\ \E i \in DOMAIN conf : Malformed(conf[i])) =>
            /\ lastSetup.registered
            /\ \A i \in DOMAIN conf :
                  ~Malformed(conf[i]) => conf[i] \in Elems(lastSetup.rules)

\* The ids of the rules that carry `descendants`, at any nesting depth.
RECURSIVE DescendantsIn(_)
DescendantsIn(rules) ==
    IF rules = <<>> THEN {}
    ELSE LET r == Head(rules)
         IN  (IF r.t = "obj" /\ r.descendants THEN {r.id} ELSE {})
             \cup (IF r.t = "obj" /\ r.nested.t = "arr"
                   THEN DescendantsIn(r.nested.items) ELSE {})
             \cup DescendantsIn(Tail(rules))

\* C4 as claimed: over all setups and configuration changes the
\* `descendants` warning is shown at most once.
C4_WarnedAtMostOnceEver == msgs.descendants <= 1

\* C4 as amended: one run of setup shows the `descendants` warning at most
\* once, however many of its rules carry the field.
C4_WarnedAtMostOncePerSetup == lastSetup.warned <= 1

C4_Witness ==
    /\ lastSetup.registered
    /\ lastSetup.warned = 1
    /\ Cardinality(DescendantsIn(lastSetup.rules)) >= 2
    /\ msgs.descendants = 2

FoldingRegistrations ==
    {i \in DOMAIN disposables : disposables[i].provider.kind = "folding"}

\* C5 as claimed: no rule handed to a FoldingProvider carries `descendants`.
C5_DescendantsCompiledAway ==
    \A i \in FoldingRegistrations :
        DescendantsIn(disposables[i].provider.rules) = {}

\* C5 as amended: setup hands the configured rules on unchanged, so exactly
\* the rules configured with `descendants` still carry it when they reach the
\* FoldingProvider, and setup warns exactly when there is such a rule.
C5_DescendantsPassedThrough ==
    lastSetup.registered =>
        /\ DescendantsIn(lastSetup.rules) =
               DescendantsIn(ConfiguredList(lastSetup.cfg, lastSetup.perLanguages,
                                            SetupLanguage))
        /\ lastSetup.warned = 1 <=> DescendantsIn(lastSetup.rules) # {}

C5_Witness ==
    /\ lastSetup.registered
    /\ 5 \in DescendantsIn(lastSetup.rules)
    /\ \E i \in FoldingRegistrations :
          DescendantsIn(disposables[i].provider.rules) # {}

\* C6: a first call with a delay above 0 returns before setup has run, with
\* the setup scheduled; a first call with any other delay returns with setup
\* completed (provider registered, document folded); and no MainProvider
\* runs setup twice for a language.
C6_DeferralOfFirstComputation ==
    /\ lastCall.first =>
          IF lastCall.delay > 0
          THEN lastCall.deferred /\ lastCall.started = 0
          ELSE ~lastCall.deferred /\ lastCall.registered /\ lastCall.folded
    /\ \A k \in DOMAIN setupStarts : setupStarts[k] <= 1

(***************************************************************************)
(* Properties of the ranges the engine produces.                           *)
(***************************************************************************)
Scanned == e.pc = "done"
LastLine == Len(e.doc) - 1

ScenarioA == << <<"a", " ", "{">>, <<"b">>, <<"}">> >>
ScenarioABeginFirst == << <<"{", " ", "a">>, <<"b">>, <<"}">> >>
ScenarioD == << <<"{">>, <<"{">>, <<"}">> >>

\* C7: every emitted range has start_line < end_line and an end_line no
\* greater than the document's last line index.
C7_BalanceInvariant ==
    Scanned =>
        \A i \in DOMAIN e.ranges :
            /\ 0 <= e.ranges[i].start
            /\ e.ranges[i].start < e.ranges[i].end
            /\ e.ranges[i].end <= LastLine

C7_Witness ==
    /\ Scanned
    /\ Len(e.ranges) >= 1
    /\ \E k \in DOMAIN e.events : e.events[k].open = e.events[k].close
    /\ \E k \in DOMAIN e.events :
          /\ ~e.rules[e.events[k].rule].foldLastLine
          /\ e.events[k].close = e.events[k].open + 2

\* Positions in the document, ordered line first.
PosBefore(l1, c1, l2, c2) == l1 < l2 \/ (l1 = l2 /\ c1 < c2)

BeginEndEvents == {k \in DOMAIN e.events : e.rules[e.events[k].rule].kind = "begin_end"}

\* C8: an end match closes the most recently opened still-open entry of its
\* rule, and an Open Entry still on the stack at the end of the document
\* gives no range; ['{','{','}'] with a '{'/'}' rule gives exactly {1,2,region}.
C8_UnbalancedOpensNeverFold ==
    Scanned =>
        /\ \A k \in BeginEndEvents :
              LET ev == e.events[k]
              IN  /\ MatchAt(e.rules[ev.rule].begin, e.doc[ev.open + 1], ev.openCol)
                  /\ MatchAt(e.rules[ev.rule].end, e.doc[ev.close + 1], ev.closeCol)
                  /\ PosBefore(ev.open, ev.openCol, ev.close, ev.closeCol)
        /\ \A k \in BeginEndEvents, j \in BeginEndEvents :
              LET a == e.events[k]
                  b == e.events[j]
              IN  (/\ a.rule = b.rule
                   /\ PosBefore(a.open, a.openCol, b.open, b.openCol)
                   /\ PosBefore(b.open, b.openCol, a.close, a.closeCol))
                  => PosBefore(b.close, b.closeCol, a.close, a.closeCol)
        /\ \A d \in DOMAIN e.discarded, k \in BeginEndEvents :
              LET en == e.discarded[d]
                  ev == e.events[k]
              IN  ev.rule = en.rule =>
                      /\ <<ev.open, ev.openCol>> # <<en.line, en.col>>
                      /\ ~(/\ PosBefore(ev.open, ev.openCol, en.line, en.col)
                           /\ PosBefore(en.line, en.col, ev.close, ev.closeCol))
        /\ (e.doc = ScenarioD /\ e.rules = <<Brace>>) =>
              e.ranges = <<Range(1, 2, "region")>>

C8_Witness ==
    /\ Scanned
    /\ e.doc = ScenarioD
    /\ e.rules = <<Brace>>
    /\ e.discarded = <<[rule |-> 1, line |-> 0, col |-> 1]>>
    /\ e.ranges = <<Range(1, 2, "region")>>

\* C9 as claimed: Scenario A, begin '^\{' and end '^\}' on ['a {','b','}'],
\* gives exactly the range {0,2,region}.
C9_ScenarioA ==
    (Scanned /\ e.doc = ScenarioA /\ e.rules = <<BraceAnchored>>) =>
        e.ranges = <<Range(0, 2, "region")>>

\* The positions where the begin, and the end, of the only rule match.
Positions == UNION {{<<n, c>> : c \in DOMAIN e.doc[n + 1]} : n \in 0..LastLine}
BeginPositions ==
    {p \in Positions : MatchAt(e.rules[1].begin, e.doc[p[1] + 1], p[2])}
EndPositionsAfter(p) ==
    {q \in Positions :
        /\ MatchAt(e.rules[1].end, e.doc[q[1] + 1], q[2])
        /\ PosBefore(p[1], p[2], q[1], q[2])}
FirstPosition(S) ==
    CHOOSE q \in S : \A x \in S : x = q \/ PosBefore(q[1], q[2], x[1], x[2])

\* C9 as amended: with one begin/end rule, a single begin match on line i
\* whose next end match is on a later line j gives exactly the range {i,j},
\* end line included (j - 1 when the rule leaves the last line out, and no
\* range when that is line i).  The anchored rule of Scenario A gives
\* {0,2,region} on ['{ a','b','}'], as the unanchored rule does on
\* ['a {','b','}'], and no range on ['a {','b','}'], where no line begins
\* with '{'.
C9_BeginThenEndFolds ==
    Scanned =>
        /\ (e.doc = ScenarioABeginFirst /\ e.rules = <<BraceAnchored>>) =>
              e.ranges = <<Range(0, 2, "region")>>
        /\ (e.doc = ScenarioA /\ e.rules = <<Brace>>) =>
              e.ranges = <<Range(0, 2, "region")>>
        /\ (e.doc = ScenarioA /\ e.rules = <<BraceAnchored>>) => e.ranges = <<>>
        /\ (/\ Len(e.rules) = 1
            /\ e.rules[1].kind = "begin_end"
            /\ Cardinality(BeginPositions) = 1) =>
              LET p == CHOOSE x \in BeginPositions : TRUE
                  ends == EndPositionsAfter(p)
                  j == FirstPosition(ends)[1]
                  end == IF e.rules[1].foldLastLine THEN j ELSE j - 1
              IN  IF ends # {} /\ p[1] < end
                  THEN e.ranges = <<Range(p[1], end, "region")>>
                  ELSE e.ranges = <<>>

C9_Witness ==
    /\ Scanned
    /\ e.doc = ScenarioABeginFirst
    /\ e.rules = <<BraceAnchored>>
    /\ e.ranges = <<Range(0, 2, "region")>>

\* The maximal runs of adjacent lines matching the begin pattern of rule k.
RunLines(k) == {n \in 0..LastLine : Matches(e.rules[k].begin, e.doc[n + 1])}
MaximalRuns(k) ==
    {r \in (0..LastLine) \X (0..LastLine) :
        /\ r[1] <= r[2]
        /\ \A n \in r[1]..r[2] : n \in RunLines(k)
        /\ (r[1] - 1) \notin RunLines(k)
        /\ (r[2] + 1) \notin RunLines(k)}

\* C10: for a consecutive rule a maximal run of exactly 1 matching line gives
\* no range, and every maximal run of 2 or more adjacent matching lines,
\* ended by a non-matching line or by the end of the document, gives exactly
\* one range, from its first to its last matching line.
C10_ConsecutiveRunThreshold ==
    Scanned =>
        \A k \in DOMAIN e.rules :
            e.rules[k].kind = "consecutive" =>
                \A r \in MaximalRuns(k) :
                    LET evs == {i \in DOMAIN e.events :
                                   /\ e.events[i].rule = k
                                   /\ e.events[i].open <= r[2]
                                   /\ e.events[i].close >= r[1]}
                        rgs == {i \in DOMAIN e.ranges :
                                   /\ e.ranges[i].start = r[1]
                                   /\ e.ranges[i].end = r[2]}
                    IN  IF r[1] = r[2] THEN evs = {}
                        ELSE /\ Cardinality(evs) = 1
                             /\ \A i \in evs : /\ e.events[i].open = r[1]
                                                /\ e.events[i].close = r[2]
                             /\ Cardinality(rgs) = 1

C10_Witness ==
    /\ Scanned
    /\ e.rules = <<LetterBlock, Brace, LineComment>>
    /\ MaximalRuns(3) = {<<1, 2>>}
    /\ e.ranges = <<Range(1, 2, "comment")>>

(***************************************************************************)
(* Properties of the MainProvider, its registrations and its listeners.    *)
(***************************************************************************)
\* The call returned its empty range list (it did not end in an exception).
ReturnedEmpty(call) == ~call.threw

\* C11: no MainProvider starts setup more than once for a language, whatever
\* calls arrive and whether or not a delayed setup is pending, and every
\* provideFoldingRanges call returns the empty range list.
C11_SetupOncePerLanguage ==
    /\ \A k \in DOMAIN setupStarts : setupStarts[k] <= 1
    /\ lastCall.doc # "none" => ReturnedEmpty(lastCall)

\* C12: at every moment at most one FoldingProvider registration is live for
\* a (language, scheme) pair, whatever the order of requests, timers firing
\* and configuration changes.
C12_OneRegistrationPerLanguageScheme ==
    \A i \in FoldingRegistrations, j \in FoldingRegistrations :
        (/\ disposables[i].language = disposables[j].language
         /\ disposables[i].scheme = disposables[j].scheme) => i = j

LiveFor(language, scheme) ==
    {i \in DOMAIN disposables :
        disposables[i].language = language /\ disposables[i].scheme = scheme}

\* C13: a configuration change that affects the settings leaves no
\* registration made before it live and exactly one registration of the new
\* MainProvider per scheme for '*', with no language flagged, so that the
\* next request for any language starts or schedules a setup of the new
\* MainProvider; every setup reads the rules current when it runs; and a
\* configuration change affecting neither key leaves the registrations as
\* they are.
C13_ConfigChangeReplacesRegistrations ==
    [][/\ (changes' # changes /\ cfg' # cfg) =>
            /\ gen' \notin {disposables[i].gen : i \in DOMAIN disposables}
            /\ \A i \in DOMAIN disposables' :
                  /\ disposables'[i].gen = gen'
                  /\ disposables'[i].language = "*"
                  /\ disposables'[i].provider.kind = "main"
            /\ \A k \in DOMAIN SCHEMES :
                  Cardinality({i \in DOMAIN disposables' :
                                  disposables'[i].scheme = SCHEMES[k]}) = 1
            /\ providers' = {}
       /\ (changes' # changes /\ cfg' = cfg) =>
            /\ disposables' = disposables
            /\ providers' = providers
            /\ gen' = gen
       /\ (lastCall' # lastCall /\ LangOf[lastCall'.doc] \notin providers) =>
            \/ [gen |-> gen, doc |-> lastCall'.doc] \in timers' \ timers
            \/ /\ setupStarts'[<<gen, LangOf[lastCall'.doc]>>] = 1
               /\ lastSetup'.gen = gen
       /\ setupStarts' # setupStarts =>
            /\ lastSetup'.cfg = cfg
            /\ ~lastSetup'.threw =>
                  lastSetup'.rules =
                      setupRules(cfg, LangOf[lastSetup'.doc], lastSetup'.perLanguages)
      ]_vars

C13_Witness ==
    /\ changes = 1
    /\ gen = 2
    /\ setupStarts[<<1, "L1">>] = 1
    /\ lastSetup.gen = 2
    /\ lastSetup.doc = "d1"
    /\ lastSetup.registered
    /\ lastSetup.cfg = cfg
    /\ lastSetup.rules = <<r1, r2, w1, w2>>
    /\ \A i \in DOMAIN disposables : disposables[i].gen = 2
    /\ Cardinality(LiveFor("*", "file")) = 1
    /\ Cardinality(LiveFor("L1", "file")) = 1

\* C14: at every moment at most one visible-editors listener of
\* setupAutoFold is subscribed, and one change of the visible editors calls
\* foldDocument at most once.
C14_OneAutoFoldListener ==
    /\ listeners <= 1
    /\ Len(seen) <= 1
    /\ lastEvent.folds <= 1

\* C15: $documents never holds a document twice and holds every document
\* for which a foldDocument call has completed, whatever the autoFold
\* setting: no entry is ever lost.
C15_DocumentCache ==
    /\ \A i \in DOMAIN documents, j \in DOMAIN documents :
          documents[i] = documents[j] => i = j
    /\ folded \subseteq Elems(documents)
    /\ (lastSetup.registered /\ lastSetup.gen # 0) => lastSetup.doc \in Elems(documents)
    /\ lastEvent.folds > 0 => lastEvent.active \in Elems(documents)

C15_Witness ==
    /\ cfg.autoFold.kind = "unset"
    /\ changes = 1
    /\ lastSetup.registered
    /\ lastEvent.folds = 2
    /\ documents = <<"d2", "d1">>
    /\ lastEvent.active = "d2"

\* The text without leading blanks and without a plus sign in front.
Trimmed(text) ==
    LET t == SkipSpace(text.chars)
    IN  IF t # <<>> /\ Head(t) = "+" THEN Tail(t) ELSE t

\* The text is a decimal number: an optional sign and digits only.
IsNumber(text) ==
    /\ text # Undefined
    /\ LET t == Trimmed(text)
           u == IF t # <<>> /\ Head(t) = "-" THEN Tail(t) ELSE t
       IN  u # <<>> /\ \A i \in DOMAIN u : IsDigit(u[i])

\* The number a decimal text denotes.
NumberOf(text) == CHOOSE n \in (0 - 20)..20 : Digits(n) = Trimmed(text)

FoldLevelCmds == {i \in DOMAIN fd.cmds : fd.cmds[i].c = "editor.foldLevel"}

\* C16: 'all' issues only editor.foldAll, 'comments' only
\* editor.foldAllBlockComments, 'none' or no value no command; any other
\* value issues editor.unfoldAll first, then for a number N the commands
\* editor.foldLevel7 down to editor.foldLevelN in strictly descending order,
\* every one of a level between 1 and 7, and nothing more for a value that
\* is no number or a number above 7.
C16_FoldCommandOrder ==
    fd.pc = "done" =>
        LET text == fd.autoFold
        IN  IF text = TextAll THEN fd.cmds = <<Cmd("editor.foldAll", 0)>>
            ELSE IF text = TextComments
                 THEN fd.cmds = <<Cmd("editor.foldAllBlockComments", 0)>>
            ELSE IF text \in {Undefined, Text(<<>>), TextNone} THEN fd.cmds = <<>>
            ELSE /\ Len(fd.cmds) >= 1
                 /\ fd.cmds[1] = Cmd("editor.unfoldAll", 0)
                 /\ FoldLevelCmds = 2..Len(fd.cmds)
                 /\ \A i \in FoldLevelCmds : fd.cmds[i].n \in 1..7
                 /\ \A i \in FoldLevelCmds : fd.cmds[i].n = 9 - i
                 /\ IF IsNumber(text) /\ NumberOf(text) <= 7
                    THEN fd.cmds[Len(fd.cmds)].n = NumberOf(text)
                    ELSE Len(fd.cmds) = 1

\* The version a version string denotes.
VersionOf(text) == CHOOSE v \in Versions : VersionString(v) = text.chars

\* C17: with a stored version, 'major' shows the what's-new message exactly
\* when the current major number is greater than the stored one, 'minor'
\* exactly when the (major, minor) pair is greater, both compared as
\* numbers; it is never shown on install or for an unchanged version; and
\* the stored version is the current one after activation.
C17_WhatsNewOnUpgrade ==
    act.pc = "done" =>
        /\ act.stored = act.current
        /\ (act.previous = Undefined \/ act.previous = act.current) => ~act.shown
        /\ (act.previous # Undefined /\ act.notification = "major") =>
              LET cur == VersionOf(act.current)
                  prev == VersionOf(act.previous)
              IN  act.shown <=> cur.major > prev.major
        /\ (act.previous # Undefined /\ act.notification = "minor") =>
              LET cur == VersionOf(act.current)
                  prev == VersionOf(act.previous)
              IN  act.shown <=> \/ cur.major > prev.major
                                \/ (cur.major = prev.major /\ cur.minor > prev.minor)

\* C18: at most one 'Folding' output channel is ever created; a setup with
\* debug on gets that one channel, creating it only when there is none, and
\* hands it to its FoldingProvider; a setup with debug off creates nothing
\* and hands its FoldingProvider null.
C18_SingleOutputChannel ==
    [][/\ channel' <= 1
       /\ channel' >= channel
       /\ (setupStarts' # setupStarts /\ ~lastSetup'.threw) =>
            LET provider == disposables'[Len(disposables')].provider
            IN  /\ provider.kind = "folding"
                /\ IF cfg.debug
                   THEN channel' = 1 /\ provider.channel = "Folding"
                   ELSE channel' = channel /\ provider.channel = "null"
       /\ setupStarts' = setupStarts => channel' = channel
      ]_vars

C18_Witness ==
    /\ channel = 1
    /\ cfg.debug
    /\ setupStarts[<<1, "L1">>] = 1
    /\ setupStarts[<<1, "L2">>] = 1
    /\ Cardinality(FoldingRegistrations) = 6
    /\ \A i \in FoldingRegistrations : disposables[i].provider.channel = "Folding"

====
